---- MODULE Spec2Model ----
(***************************************************************************)
(* Model of crates/context-graph-benchmark/scripts/prepare_huggingface.py: *)
(* the resumable multi-source ingestion pipeline (chunker, identifier,     *)
(* topic extractor, quota allocation, checkpoint store, orchestrator).     *)
(*                                                                         *)
(* Text is abstracted to its word count: a body of n words is the number   *)
(* n, and a chunk's text is the word span it covers.  Short strings (topic *)
(* labels, titles) are sequences of one-character strings.                 *)
(***************************************************************************)
EXTENDS Integers, Sequences, FiniteSets, TLC

\* ------------------------------------------------------------------------
\* Bounds of the model
\* ------------------------------------------------------------------------
NumSources == 2
MaxDocs == 2
MaxChunks == 4
MaxCalls == 2
MaxWords == 7        \* longest text of the chunker's input grid, in words
MaxChunkSize == 3    \* largest chunk_size (and overlap) of that grid
MaxIter == 8         \* iterations of chunk_text's loop that are followed

\* ------------------------------------------------------------------------
\* Program constants
\* ------------------------------------------------------------------------
DefaultChunkSize == 200
DefaultOverlap == 50
DefaultMaxDocs == 5000
AvgChunksPerDoc == 2
TopN == 100
TopicTrunc == 20
TitleTrunc == 200

Min(a, b) == IF a <= b THEN a ELSE b

RECURSIVE SeqSum(_)
SeqSum(s) == IF s = <<>> THEN 0 ELSE Head(s) + SeqSum(Tail(s))

Range(f) == {f[x] : x \in DOMAIN f}

\* ------------------------------------------------------------------------
\* Strings as character sequences
\* ------------------------------------------------------------------------
Lower(c) ==
    CASE c = "A" -> "a" [] c = "I" -> "i" [] c = "P" -> "p" [] c = "W" -> "w"
      [] OTHER -> c

lower(s) == [k \in 1..Len(s) |-> Lower(s[k])]

\* str.replace(".", "_")
replace_dot(s) == [k \in 1..Len(s) |-> IF s[k] = "." THEN "_" ELSE s[k]]

IsSpace(c) == c = " "

\* index of the first position of s satisfying the test, or Len(s)+1
RECURSIVE FirstAt(_, _, _)
FirstAt(s, k, isSep) ==
    IF k > Len(s) THEN k
    ELSE IF (isSep = "," /\ s[k] = ",") \/ (isSep = " " /\ IsSpace(s[k])) THEN k
    ELSE FirstAt(s, k + 1, isSep)

RECURSIVE lstrip(_)
lstrip(s) == IF s # <<>> /\ IsSpace(Head(s)) THEN lstrip(Tail(s)) ELSE s

RECURSIVE rstrip(_)
rstrip(s) ==
    IF s # <<>> /\ IsSpace(s[Len(s)]) THEN rstrip(SubSeq(s, 1, Len(s) - 1)) ELSE s

strip(s) == rstrip(lstrip(s))

\* topic.split(",")[0]
before_comma(s) == SubSeq(s, 1, FirstAt(s, 1, ",") - 1)

HasComma(s) == \E k \in 1..Len(s) : s[k] = ","

\* title.split(): the whitespace-delimited tokens; only the first is used
first_token(s) ==
    LET t == lstrip(s) IN SubSeq(t, 1, FirstAt(t, 1, " ") - 1)

HasToken(s) == lstrip(s) # <<>>

Digit(n) == <<"0", "1", "2", "3", "4", "5", "6", "7", "8", "9">>[n + 1]

\* ------------------------------------------------------------------------
\* DATASET_CONFIGS
\* ------------------------------------------------------------------------
AllNames == <<"arxiv", "code", "stackoverflow", "wikipedia">>

DATASET_CONFIGS == SubSeq(AllNames, 1, Min(NumSources, Len(AllNames)))

Names == Range(DATASET_CONFIGS)

min_words(name) ==
    CASE name = "arxiv" -> 50
      [] name = "code" -> 20
      [] name = "stackoverflow" -> 30
      [] OTHER -> 100

has_topic_field(name) == name # "wikipedia"

has_title_field(name) == TRUE

name_chars(name) ==
    CASE name = "arxiv" -> <<"a", "r", "x", "i", "v">>
      [] name = "code" -> <<"c", "o", "d", "e">>
      [] name = "stackoverflow" ->
            <<"s", "t", "a", "c", "k", "o", "v", "e", "r", "f", "l", "o", "w">>
      [] OTHER -> <<"w", "i", "k", "i", "p", "e", "d", "i", "a">>

StaticMaxDocs == [n \in Names |-> DefaultMaxDocs]

\* ------------------------------------------------------------------------
\* chunk_text
\* ------------------------------------------------------------------------
\* The while loop of chunk_text from the position `start`, `chunks` being the
\* spans appended so far.
RECURSIVE chunk_loop(_, _, _, _, _)
chunk_loop(nwords, chunk_size, overlap, start, chunks) ==
    IF ~(start < nwords) THEN chunks
    ELSE LET end == Min(start + chunk_size, nwords)
             appended == Append(chunks, <<start, end>>)
             next == start + (chunk_size - overlap)
         IN  IF nwords - next < overlap THEN appended
             ELSE chunk_loop(nwords, chunk_size, overlap, next, appended)

\* chunk_text(text, chunk_size, overlap) for a text of nwords words: the list
\* of (start_word_idx, end_word_idx); the chunk's text is that span of words.
chunk_text(nwords, chunk_size, overlap) ==
    IF nwords <= chunk_size THEN << <<0, nwords>> >>
    ELSE chunk_loop(nwords, chunk_size, overlap, 0, <<>>)

\* With chunk_size - overlap <= 0 the loop's start never moves forward, and
\* for a text longer than chunk_size neither the loop test nor the break test
\* ever ends the loop: chunk_text does not return.
chunk_text_hangs(nwords, chunk_size, overlap) ==
    nwords > chunk_size /\ chunk_size - overlap <= 0

\* ------------------------------------------------------------------------
\* generate_chunk_id
\* ------------------------------------------------------------------------
\* f"{source}:{doc_id}:{chunk_idx}", the string that is hashed.
id_content(doc_id, chunk_idx, source) == <<source, doc_id, chunk_idx>>

\* SHA-256 truncated to 16 bytes, hex-grouped 8-4-4-4-12; the digest is taken
\* to be collision-free, so the identifier is determined by, and determines,
\* the hashed content.
generate_chunk_id(doc_id, chunk_idx, source) ==
    [sha256_16 |-> id_content(doc_id, chunk_idx, source)]

\* ------------------------------------------------------------------------
\* Documents (RawDocument) and extract_topic
\* ------------------------------------------------------------------------
\* A field value: absent, a string (s), an integer (n), a list of strings
\* (items) or a value of another type with its str() rendering (s).
Absent == [t |-> "absent", s |-> <<>>, n |-> 0, items |-> <<>>]
StrVal(s) == [t |-> "str", s |-> s, n |-> 0, items |-> <<>>]
IntVal(n) == [t |-> "int", s |-> <<>>, n |-> n, items |-> <<>>]
ListVal(items) == [t |-> "list", s |-> <<>>, n |-> 0, items |-> items]
OtherVal(s) == [t |-> "other", s |-> s, n |-> 0, items |-> <<>>]

\* A document as the three fields a config reads from it: text is the number
\* of words of doc[config.text_field] (-1: the field is missing, empty or no
\* string), title is doc[config.title_field], topic is doc[config.topic_field].
Doc(text, title, topic) == [text |-> text, title |-> title, topic |-> topic]

\* f"{config.name}_general"
general_topic(name) == name_chars(name) \o <<"_", "g", "e", "n", "e", "r", "a", "l">>

\* title.split()[0] raises IndexError for a non-empty title of whitespace only
extract_topic_raises(name, doc) ==
    /\ ~(has_topic_field(name) /\ doc.topic.t # "absent")
    /\ has_title_field(name) /\ doc.title.t = "str"
    /\ doc.title.s # <<>> /\ ~HasToken(doc.title.s)

extract_topic(name, doc) ==
    IF has_topic_field(name) /\ doc.topic.t # "absent" THEN
        LET topic == doc.topic IN
        CASE topic.t = "list" ->
                IF topic.items # <<>> THEN topic.items[1]
                ELSE <<"u", "n", "k", "n", "o", "w", "n">>
          [] topic.t = "str" ->
                IF HasComma(topic.s) THEN lower(strip(before_comma(topic.s)))
                ELSE replace_dot(lower(topic.s))
          [] topic.t = "int" -> <<"l", "a", "b", "e", "l", "_", Digit(topic.n)>>
          [] OTHER -> topic.s
    ELSE IF has_title_field(name) /\ doc.title.t = "str" /\ doc.title.s # <<>> THEN
        LET w == lower(first_token(doc.title.s))
        IN  SubSeq(w, 1, Min(Len(w), TopicTrunc))
    ELSE general_topic(name)

\* ------------------------------------------------------------------------
\* The documents the remote sources of the model serve
\* ------------------------------------------------------------------------
DocEmpty == Doc(-1, Absent, Absent)
DocShort == Doc(40, StrVal(<<"P", "y", " ", "x">>), StrVal(<<"P", ",", "f">>))
DocLong == Doc(500, Absent, StrVal(<<"c", "s", ".", "A", "I">>))

DocPool == {DocEmpty, DocShort, DocLong}

\* What is known of a remote stream.  A source serves the same thing to every
\* run; the runs find out what it is as they go: whether load_dataset returns
\* a stream ("ok") or raises ("fails"), the documents read so far, and what
\* comes after them: a further document not yet looked at ("more"), the end of
\* the stream ("ends"), an exception ("raises").  A stream has at most MaxDocs
\* documents.
Unknown == [opened |-> "unknown", docs |-> <<>>, tail |-> "unknown"]

\* a further document can follow the ones known of the stream
may_have_more(stream) ==
    stream.tail \in {"unknown", "more"} /\ Len(stream.docs) < MaxDocs

\* ------------------------------------------------------------------------
\* process_dataset, one document
\* ------------------------------------------------------------------------
digits(n) == IF n < 10 THEN <<Digit(n)>> ELSE <<Digit(n \div 10), Digit(n % 10)>>

\* f"{config.name}_{i}" as text (the default title)
default_title(name, i) == name_chars(name) \o <<"_">> \o digits(i)

\* doc.get(config.title_field, f"{config.name}_{i}") or f"{config.name}_{i}",
\* then str(title)[:200]
title_of(name, i, doc) ==
    LET v == doc.title
        falsy == \/ v.t = "absent"
                 \/ v.t = "str" /\ v.s = <<>>
                 \/ v.t = "int" /\ v.n = 0
                 \/ v.t = "list" /\ v.items = <<>>
        str == IF falsy THEN default_title(name, i)
               ELSE IF v.t = "int" THEN digits(v.n) ELSE v.s
    IN  SubSeq(str, 1, Min(Len(str), TitleTrunc))

\* f"{config.name}_{i}"
doc_id_of(name, i) == <<name, i>>

\* The chunk records process_dataset appends for document i of a source.
doc_chunks(name, i, doc, chunk_size, overlap) ==
    LET spans == chunk_text(doc.text, chunk_size, overlap)
        doc_id == doc_id_of(name, i)
    IN  [x \in 1..Len(spans) |->
            [id |-> generate_chunk_id(doc_id, x - 1, name),
             doc_id |-> doc_id,
             title |-> title_of(name, i, doc),
             chunk_idx |-> x - 1,
             text |-> spans[x],
             word_count |-> spans[x][2] - spans[x][1],
             start_word |-> spans[x][1],
             end_word |-> spans[x][2],
             topic_hint |-> extract_topic(name, doc),
             source_dataset |-> name]]

ZeroStats ==
    [documents |-> 0, chunks |-> 0, words |-> 0, skipped_short |-> 0, skipped_empty |-> 0]

\* topic_counts[topic] = topic_counts.get(topic, 0) + 1
count_topic(counts, topic) ==
    (topic :> (IF topic \in DOMAIN counts THEN counts[topic] ELSE 0) + 1) @@ counts

\* ------------------------------------------------------------------------
\* JSON files: save_checkpoint and load_checkpoint
\* ------------------------------------------------------------------------
ChunkKeys ==
    <<"id", "doc_id", "title", "chunk_idx", "text", "word_count", "start_word",
      "end_word", "topic_hint", "source_dataset">>

\* json.dumps(chunk): the object's members in insertion order
dumps_chunk(chunk) == [x \in 1..Len(ChunkKeys) |-> <<ChunkKeys[x], chunk[ChunkKeys[x]]>>]

member(line, key) == (CHOOSE x \in 1..Len(line) : line[x][1] = key)

\* json.loads(line): the dict of the members
loads_chunk(line) == [key \in {line[x][1] : x \in 1..Len(line)} |-> line[member(line, key)][2]]

\* list(processed_datasets): the names in some order
RECURSIVE set_to_list(_)
set_to_list(S) ==
    IF S = {} THEN <<>>
    ELSE LET x == CHOOSE y \in S : TRUE IN <<x>> \o set_to_list(S \ {x})

\* a JSON object with computed keys, as its set of members
dumps_counts(counts) == {<<t, counts[t]>> : t \in DOMAIN counts}

loads_counts(members) ==
    [t \in {m[1] : m \in members} |-> (CHOOSE m \in members : m[1] = t)[2]]

NoLines == [exists |-> FALSE, lines |-> <<>>, torn |-> FALSE]

NoJson == [exists |-> FALSE, torn |-> FALSE, processed_datasets |-> <<>>, topic_counts |-> {}]

\* open(path, "w"): the file exists and is empty; an empty or cut-off JSON
\* document does not parse
Truncated(file) == [file EXCEPT !.exists = TRUE, !.torn = FALSE, !.lines = <<>>]

\* the checkpoint file once every line is written
checkpoint_lines(chunks) ==
    [exists |-> TRUE, lines |-> [x \in 1..Len(chunks) |-> dumps_chunk(chunks[x])],
     torn |-> FALSE]

\* checkpoint_meta = {"processed_datasets": list(...), "topic_counts": ...}
\* as json.dump writes it
checkpoint_meta_json(processed, counts) ==
    [exists |-> TRUE, torn |-> FALSE,
     processed_datasets |-> set_to_list(processed),
     topic_counts |-> dumps_counts(counts)]

\* load_checkpoint raises when a line or the metadata is no JSON
load_checkpoint_raises(cfile, mfile) ==
    /\ cfile.exists /\ mfile.exists
    /\ cfile.torn \/ mfile.torn

\* load_checkpoint: (chunks, metadata, processed)
load_checkpoint(cfile, mfile) ==
    IF ~cfile.exists \/ ~mfile.exists
    THEN [chunks |-> <<>>, has_meta |-> FALSE, topic_counts |-> <<>>, processed |-> {}]
    ELSE [chunks |-> [x \in 1..Len(cfile.lines) |-> loads_chunk(cfile.lines[x])],
          has_meta |-> TRUE,
          topic_counts |-> loads_counts(mfile.topic_counts),
          processed |-> Range(mfile.processed_datasets)]

\* ------------------------------------------------------------------------
\* State
\* ------------------------------------------------------------------------
VARIABLES
    contents,            \* what is known of what each remote source serves
    ckpt_file,           \* checkpoint.jsonl
    meta_file,           \* checkpoint_meta.json
    chunks_file,         \* chunks.jsonl
    metadata_file,       \* metadata.json
    max_docs,            \* DATASET_CONFIGS[..].max_docs, per process
    pc,                  \* where prepare_huggingface_benchmark stands
    calls,               \* calls of prepare_huggingface_benchmark so far
    args,                \* the arguments of the current call
    all_chunks, topic_counts, processed_datasets,
    remaining_configs,   \* the list iterated by the main loop
    k,                   \* position of the main loop in remaining_configs
    i,                   \* enumerate index inside process_dataset
    dataset_stats,       \* the stats dict of the running process_dataset
    stats,               \* the overall statistics dict
    why,                 \* history: what made the current call raise
    loaded_done,         \* history: the completed sources the current call loaded
    snaps,               \* history: the states at source-completion boundaries
    interrupted,         \* history: how the first run was interrupted
    configs_used,        \* history: the configurations of the calls so far
    chunker,             \* a call of chunk_text on its own
    extractor            \* a call of extract_topic on its own

disk == <<ckpt_file, meta_file, chunks_file, metadata_file>>
locals == <<args, all_chunks, topic_counts, processed_datasets, remaining_configs,
            k, i, dataset_stats, stats>>
hist == <<why, loaded_done, snaps, interrupted, configs_used>>
units == <<chunker, extractor>>
vars == <<contents, disk, max_docs, pc, calls, locals, hist, units>>

\* --max-chunks
Budgets == {MaxChunks}

\* --datasets: none given, one configured source, a name that matches nothing
Selections == {{}, {DATASET_CONFIGS[Len(DATASET_CONFIGS)]}, {"imagenet"}}

\* a call whose overlap is not below its chunk_size
BadOverlapArgs ==
    [max_chunks |-> MaxChunks, chunk_size |-> DefaultChunkSize,
     overlap |-> DefaultChunkSize, datasets |-> {}, resume |-> FALSE]

ArgSets ==
    [max_chunks : Budgets, chunk_size : {DefaultChunkSize}, overlap : {DefaultOverlap},
     datasets : Selections, resume : BOOLEAN]
    \cup {BadOverlapArgs}

NoArgs ==
    [max_chunks |-> 0, chunk_size |-> 0, overlap |-> 0, datasets |-> {}, resume |-> FALSE]

NoStats ==
    [total_documents |-> 0, total_chunks |-> 0, total_words |-> 0, chunk_size |-> 0,
     overlap |-> 0, source_datasets |-> <<>>, dataset_stats |-> <<>>,
     topic_counts |-> <<>>, top_topics |-> <<>>]

NoMetadata == [exists |-> FALSE, torn |-> FALSE, stats |-> NoStats]

Active ==
    {"plan", "loop", "stream", "hung", "mark", "save_open", "save_write", "save_meta_open",
     "save_meta_write", "final", "final_write", "final_meta_open", "final_meta_write",
     "unlink", "unlink_meta"}

Ended == {"done", "raised", "exited", "killed"}

NotInterrupted == [after_one |-> FALSE, args |-> NoArgs]

\* no call of chunk_text / extract_topic on its own
NotChunking ==
    [at |-> "none", nwords |-> 0, chunk_size |-> 0, overlap |-> 0, start |-> 0,
     chunks |-> <<>>]

NotExtracting == [at |-> "none", name |-> "", doc |-> Doc(-1, Absent, Absent), out |-> <<>>]

\* the locals of a call that has not started
InitLocals ==
    /\ args = NoArgs
    /\ all_chunks = <<>>
    /\ topic_counts = <<>>
    /\ processed_datasets = {}
    /\ remaining_configs = <<>>
    /\ k = 1
    /\ i = 0
    /\ dataset_stats = ZeroStats
    /\ stats = NoStats

\* the state of the pipeline before any call, which these calls leave alone
Untouched ==
    /\ contents = [name \in Names |-> Unknown]
    /\ ckpt_file = NoLines
    /\ meta_file = NoJson
    /\ chunks_file = NoLines
    /\ metadata_file = NoMetadata
    /\ max_docs = StaticMaxDocs
    /\ pc = "idle"
    /\ calls = 0
    /\ InitLocals
    /\ why = "none"
    /\ loaded_done = {}
    /\ snaps = {}
    /\ interrupted = NotInterrupted
    /\ configs_used = {}

Init ==
    /\ Untouched
    /\ chunker = NotChunking
    /\ extractor = NotExtracting

\* [c for c in configs if ...] over a list of names
RECURSIVE select(_, _)
select(list, keep) ==
    IF list = <<>> THEN <<>>
    ELSE IF Head(list) \in keep THEN <<Head(list)>> \o select(Tail(list), keep)
    ELSE select(Tail(list), keep)

\* configs after the --datasets filter (lines 327-332)
configs_of(a) ==
    IF a.datasets # {} THEN select(DATASET_CONFIGS, a.datasets) ELSE DATASET_CONFIGS

\* the configuration of a call: its arguments but the resume flag
config_of(a) ==
    [max_chunks |-> a.max_chunks, chunk_size |-> a.chunk_size,
     overlap |-> a.overlap, datasets |-> a.datasets]

\* ------------------------------------------------------------------------
\* prepare_huggingface_benchmark: start of a call, checkpoint load
\* ------------------------------------------------------------------------
\* A call starts in a new process (DATASET_CONFIGS as written in the source)
\* or, after a call that returned or raised, in the same process.  It filters
\* the configs and loads the checkpoint (lines 312-343).
StartCall(a, newproc) ==
    /\ pc \in Ended \cup {"idle"}
    /\ calls < MaxCalls
    /\ pc \in {"idle", "exited", "killed"} => newproc
    /\ calls' = calls + 1
    /\ max_docs' = IF newproc THEN StaticMaxDocs ELSE max_docs
    /\ args' = a
    /\ remaining_configs' = <<>>
    /\ k' = 1
    /\ i' = 0
    /\ dataset_stats' = ZeroStats
    /\ stats' = NoStats
    /\ IF configs_of(a) = <<>> THEN
          \* sys.exit(1)
          /\ pc' = "exited" /\ why' = "none"
          /\ all_chunks' = <<>> /\ topic_counts' = <<>> /\ processed_datasets' = {}
       ELSE IF a.resume /\ load_checkpoint_raises(ckpt_file, meta_file) THEN
          /\ pc' = "raised" /\ why' = "load"
          /\ all_chunks' = <<>> /\ topic_counts' = <<>> /\ processed_datasets' = {}
       ELSE IF a.resume THEN
          LET got == load_checkpoint(ckpt_file, meta_file) IN
          /\ pc' = "plan" /\ why' = "none"
          /\ all_chunks' = got.chunks
          /\ processed_datasets' = got.processed
          /\ topic_counts' = IF got.chunks # <<>> THEN got.topic_counts ELSE <<>>
       ELSE
          /\ pc' = "plan" /\ why' = "none"
          /\ all_chunks' = <<>> /\ topic_counts' = <<>> /\ processed_datasets' = {}
    /\ loaded_done' = processed_datasets'
    /\ configs_used' = configs_used \cup {config_of(a)}
    /\ UNCHANGED <<units, contents, disk, snaps, interrupted>>

\* ------------------------------------------------------------------------
\* Plan and Allocate (lines 345-371)
\* ------------------------------------------------------------------------
runtime_cap(cap, per_dataset_limit) == Min(cap, per_dataset_limit \div AvgChunksPerDoc)

allocate(caps, remaining, max_chunks, loaded) ==
    IF remaining = <<>> THEN caps
    ELSE LET chunks_remaining == max_chunks - loaded
             per_dataset_limit == chunks_remaining \div Len(remaining)
         IN  [n \in DOMAIN caps |->
                IF n \in Range(remaining) THEN runtime_cap(caps[n], per_dataset_limit)
                ELSE caps[n]]

\* Variant: the completed sources are not filtered out.
Allocate_keeps_completed ==
    /\ pc = "plan"
    /\ LET remaining == configs_of(args) IN
       /\ remaining_configs' = remaining
       /\ max_docs' = allocate(max_docs, remaining, args.max_chunks, Len(all_chunks))
    /\ stats' = [total_documents |-> 0,
                 total_chunks |-> Len(all_chunks),
                 total_words |-> SeqSum([x \in 1..Len(all_chunks) |-> all_chunks[x].word_count]),
                 chunk_size |-> args.chunk_size,
                 overlap |-> args.overlap,
                 source_datasets |-> <<>>,
                 dataset_stats |-> <<>>,
                 topic_counts |-> topic_counts,
                 top_topics |-> <<>>]
    /\ k' = 1
    /\ pc' = "loop"
    /\ UNCHANGED <<units, hist, contents, disk, calls, args, all_chunks, topic_counts,
                   processed_datasets, i, dataset_stats>>

\* Lines 345-371: the sources still to do, their caps, the stats dict.
Allocate ==
    /\ pc = "plan"
    /\ LET remaining == select(configs_of(args), Names \ processed_datasets) IN
       /\ remaining_configs' = remaining
       /\ max_docs' = allocate(max_docs, remaining, args.max_chunks, Len(all_chunks))
    /\ stats' = [total_documents |-> 0,
                 total_chunks |-> Len(all_chunks),
                 total_words |-> SeqSum([x \in 1..Len(all_chunks) |-> all_chunks[x].word_count]),
                 chunk_size |-> args.chunk_size,
                 overlap |-> args.overlap,
                 source_datasets |-> <<>>,
                 dataset_stats |-> <<>>,
                 topic_counts |-> topic_counts,
                 top_topics |-> <<>>]
    /\ k' = 1
    /\ pc' = "loop"
    /\ UNCHANGED <<units, hist, contents, disk, calls, args, all_chunks, topic_counts,
                   processed_datasets, i, dataset_stats>>

\* ------------------------------------------------------------------------
\* The main loop (lines 378-407) and process_dataset (lines 170-258)
\* ------------------------------------------------------------------------
cur == remaining_configs[k]

\* The loop is over, or the budget is reached: on to the final output.
LoopExit ==
    /\ pc = "loop"
    /\ k > Len(remaining_configs) \/ Len(all_chunks) >= args.max_chunks
    /\ pc' = "final"
    /\ UNCHANGED <<units, hist, contents, disk, max_docs, calls, locals>>

\* Variant: the next source is opened without a look at the chunk total.
OpenSource_ignores_budget ==
    /\ pc = "loop"
    /\ k <= Len(remaining_configs)
    /\ contents[cur].opened \in {"unknown", "ok"}
    /\ contents' = [contents EXCEPT ![cur].opened = "ok"]
    /\ dataset_stats' = ZeroStats
    /\ i' = 0
    /\ pc' = "stream"
    /\ UNCHANGED <<units, hist, disk, max_docs, calls, args, all_chunks, topic_counts,
                   processed_datasets, remaining_configs, k, stats>>

\* process_dataset is entered and load_dataset returns a stream.
OpenSource ==
    /\ pc = "loop"
    /\ k <= Len(remaining_configs) /\ Len(all_chunks) < args.max_chunks
    /\ contents[cur].opened \in {"unknown", "ok"}
    /\ contents' = [contents EXCEPT ![cur].opened = "ok"]
    /\ dataset_stats' = ZeroStats
    /\ i' = 0
    /\ pc' = "stream"
    /\ UNCHANGED <<units, hist, disk, max_docs, calls, args, all_chunks, topic_counts,
                   processed_datasets, remaining_configs, k, stats>>

\* Variant: the source that cannot be opened is passed over, neither marked
\* nor saved.
OpenFails_unmarked ==
    /\ pc = "loop"
    /\ k <= Len(remaining_configs) /\ Len(all_chunks) < args.max_chunks
    /\ contents[cur].opened \in {"unknown", "fails"}
    /\ contents' = [contents EXCEPT ![cur].opened = "fails"]
    /\ k' = k + 1
    /\ UNCHANGED <<units, hist, disk, max_docs, pc, calls, args, all_chunks,
                   topic_counts, processed_datasets, remaining_configs, i,
                   dataset_stats, stats>>

\* load_dataset raises: process_dataset returns the zero stats.
OpenFails ==
    /\ pc = "loop"
    /\ k <= Len(remaining_configs) /\ Len(all_chunks) < args.max_chunks
    /\ contents[cur].opened \in {"unknown", "fails"}
    /\ contents' = [contents EXCEPT ![cur].opened = "fails"]
    /\ dataset_stats' = ZeroStats
    /\ i' = 0
    /\ pc' = "mark"
    /\ UNCHANGED <<units, hist, disk, max_docs, calls, args, all_chunks, topic_counts,
                   processed_datasets, remaining_configs, k, stats>>

\* The stream is exhausted, or the document pulled has index >= max_docs:
\* process_dataset returns its stats.
StreamEnds ==
    /\ pc = "stream"
    /\ \/ /\ i = Len(contents[cur].docs)
          /\ contents[cur].tail \in {"unknown", "ends"}
          /\ contents' = [contents EXCEPT ![cur].tail = "ends"]
       \/ /\ i >= max_docs[cur]
          /\ \/ i < Len(contents[cur].docs) /\ contents' = contents
             \/ /\ i = Len(contents[cur].docs) /\ may_have_more(contents[cur])
                /\ contents' = [contents EXCEPT ![cur].tail = "more"]
    /\ pc' = "mark"
    /\ UNCHANGED <<units, hist, disk, max_docs, calls, locals>>

\* The stream raises while the loop pulls the next document; nothing catches it.
StreamRaises ==
    /\ pc = "stream"
    /\ i = Len(contents[cur].docs)
    /\ contents[cur].tail \in {"unknown", "raises"}
    /\ contents' = [contents EXCEPT ![cur].tail = "raises"]
    /\ pc' = "raised" /\ why' = "stream"
    /\ UNCHANGED <<units, loaded_done, snaps, interrupted, configs_used, disk, max_docs, calls, locals>>

\* One iteration of the document loop (lines 204-256).
ProcessDoc(doc) ==
    /\ pc = "stream"
    /\ i < max_docs[cur]
    /\ \/ /\ i < Len(contents[cur].docs) /\ doc = contents[cur].docs[i + 1]
          /\ contents' = contents
       \/ /\ i = Len(contents[cur].docs) /\ may_have_more(contents[cur])
          /\ contents' = [contents EXCEPT ![cur].docs = Append(@, doc),
                                          ![cur].tail = "unknown"]
    /\ IF doc.text < 0 THEN
          /\ dataset_stats' = [dataset_stats EXCEPT !.skipped_empty = @ + 1]
          /\ pc' = "stream" /\ why' = why
          /\ UNCHANGED <<all_chunks, topic_counts, stats>>
       ELSE IF doc.text < min_words(cur) THEN
          /\ dataset_stats' = [dataset_stats EXCEPT !.skipped_short = @ + 1]
          /\ pc' = "stream" /\ why' = why
          /\ UNCHANGED <<all_chunks, topic_counts, stats>>
       ELSE IF extract_topic_raises(cur, doc) THEN
          /\ pc' = "raised" /\ why' = "topic"
          /\ UNCHANGED <<all_chunks, topic_counts, stats, dataset_stats>>
       ELSE IF chunk_text_hangs(doc.text, args.chunk_size, args.overlap) THEN
          \* the topic is counted, then chunk_text never returns
          LET counts == count_topic(topic_counts, extract_topic(cur, doc))
          IN  /\ topic_counts' = counts
              /\ stats' = [stats EXCEPT !.topic_counts = counts]
              /\ pc' = "hung" /\ why' = why
              /\ UNCHANGED <<all_chunks, dataset_stats>>
       ELSE
          LET new == doc_chunks(cur, i, doc, args.chunk_size, args.overlap)
              counts == count_topic(topic_counts, extract_topic(cur, doc))
          IN  /\ topic_counts' = counts
              /\ stats' = [stats EXCEPT !.topic_counts = counts]
              /\ all_chunks' = all_chunks \o new
              /\ dataset_stats' =
                    [dataset_stats EXCEPT
                        !.chunks = @ + Len(new),
                        !.words = @ + SeqSum([x \in 1..Len(new) |-> new[x].word_count]),
                        !.documents = @ + 1]
              /\ pc' = "stream" /\ why' = why
    /\ i' = i + 1
    /\ UNCHANGED <<units, loaded_done, snaps, interrupted, configs_used, disk, max_docs, calls, args, processed_datasets,
                   remaining_configs, k>>

\* Variant: the source is marked and the loop goes on without a save.
MarkProcessed_no_save ==
    /\ pc = "mark"
    /\ stats' = [stats EXCEPT
                    !.dataset_stats = (cur :> dataset_stats) @@ @,
                    !.source_datasets = Append(@, cur),
                    !.total_documents = @ + dataset_stats.documents,
                    !.total_chunks = Len(all_chunks),
                    !.total_words = @ + dataset_stats.words]
    /\ processed_datasets' = processed_datasets \cup {cur}
    /\ snaps' = snaps \cup {[chunks |-> all_chunks,
                              processed |-> processed_datasets \cup {cur},
                              topic_counts |-> topic_counts]}
    /\ pc' = "loop"
    /\ k' = k + 1
    /\ UNCHANGED <<units, why, loaded_done, interrupted, configs_used, contents, disk, max_docs, calls, args, all_chunks, topic_counts,
                   remaining_configs, i, dataset_stats>>

\* Lines 392-398: the source's stats are recorded and the source is marked.
MarkProcessed ==
    /\ pc = "mark"
    /\ stats' = [stats EXCEPT
                    !.dataset_stats = (cur :> dataset_stats) @@ @,
                    !.source_datasets = Append(@, cur),
                    !.total_documents = @ + dataset_stats.documents,
                    !.total_chunks = Len(all_chunks),
                    !.total_words = @ + dataset_stats.words]
    /\ processed_datasets' = processed_datasets \cup {cur}
    /\ snaps' = snaps \cup {[chunks |-> all_chunks,
                              processed |-> processed_datasets \cup {cur},
                              topic_counts |-> topic_counts]}
    /\ pc' = "save_open"
    /\ UNCHANGED <<units, why, loaded_done, interrupted, configs_used, contents, disk, max_docs, calls, args, all_chunks, topic_counts,
                   remaining_configs, k, i, dataset_stats>>

\* ------------------------------------------------------------------------
\* save_checkpoint (lines 261-276), one step per file operation
\* ------------------------------------------------------------------------
SaveOpenCheckpoint ==
    /\ pc = "save_open"
    /\ ckpt_file' = Truncated(ckpt_file)
    /\ pc' = "save_write"
    /\ UNCHANGED <<units, hist, contents, meta_file, chunks_file, metadata_file, max_docs, calls, locals>>

\* Variant: the last chunk is not written.
SaveWriteCheckpoint_drops_last ==
    /\ pc = "save_write"
    /\ ckpt_file' = checkpoint_lines(SubSeq(all_chunks, 1, Len(all_chunks) - 1))
    /\ pc' = "save_meta_open"
    /\ UNCHANGED <<units, hist, contents, meta_file, chunks_file, metadata_file, max_docs, calls, locals>>

SaveWriteCheckpoint ==
    /\ pc = "save_write"
    /\ ckpt_file' = checkpoint_lines(all_chunks)
    /\ pc' = "save_meta_open"
    /\ UNCHANGED <<units, hist, contents, meta_file, chunks_file, metadata_file, max_docs, calls, locals>>

SaveOpenMeta ==
    /\ pc = "save_meta_open"
    /\ meta_file' = [NoJson EXCEPT !.exists = TRUE, !.torn = TRUE]
    /\ pc' = "save_meta_write"
    /\ UNCHANGED <<units, hist, contents, ckpt_file, chunks_file, metadata_file, max_docs, calls, locals>>

\* json.dump(metadata); save_checkpoint returns and the loop goes on.
SaveWriteMeta ==
    /\ pc = "save_meta_write"
    /\ meta_file' = checkpoint_meta_json(processed_datasets, topic_counts)
    /\ k' = k + 1
    /\ pc' = "loop"
    /\ UNCHANGED <<units, hist, contents, ckpt_file, chunks_file, metadata_file, max_docs, calls, args,
                   all_chunks, topic_counts, processed_datasets, remaining_configs, i,
                   dataset_stats, stats>>

SavePoints == {"save_open", "save_write", "save_meta_open", "save_meta_write"}

\* Variant: the failure is caught and the loop goes on.
SaveFails_swallowed ==
    /\ pc \in SavePoints
    /\ pc' = "loop" /\ why' = "save"
    /\ k' = k + 1
    /\ UNCHANGED <<units, loaded_done, snaps, interrupted, configs_used, contents, disk, max_docs, calls,
                   args, all_chunks, topic_counts, processed_datasets,
                   remaining_configs, i, dataset_stats, stats>>

\* A write of save_checkpoint fails (OSError): nothing catches it.
SaveFails ==
    /\ pc \in SavePoints
    /\ pc' = "raised" /\ why' = "save"
    /\ UNCHANGED <<units, loaded_done, snaps, interrupted, configs_used, contents, disk, max_docs, calls, locals>>

\* ------------------------------------------------------------------------
\* Final output and checkpoint clean-up (lines 409-456)
\* ------------------------------------------------------------------------
\* sorted(topic_counts.items(), key=lambda x: -x[1]): the topics by descending
\* count
RECURSIVE sorted_topics(_)
sorted_topics(counts) ==
    IF DOMAIN counts = {} THEN <<>>
    ELSE LET top == CHOOSE t \in DOMAIN counts :
                        \A u \in DOMAIN counts : counts[u] <= counts[t]
             rest == [u \in DOMAIN counts \ {top} |-> counts[u]]
         IN  <<top>> \o sorted_topics(rest)

top_topics_of(counts) ==
    LET all == sorted_topics(counts) IN SubSeq(all, 1, Min(Len(all), TopN))

\* Variant: the checkpoint is removed before the final output is written.
FinalOpenChunks_unlinks_first ==
    /\ pc = "final"
    /\ LET top == top_topics_of(topic_counts) IN
       stats' = [stats EXCEPT !.top_topics = top,
                              !.topic_counts = [t \in Range(top) |-> topic_counts[t]]]
    /\ chunks_file' = Truncated(chunks_file)
    /\ ckpt_file' = NoLines
    /\ meta_file' = NoJson
    /\ pc' = "final_write"
    /\ UNCHANGED <<units, hist, contents, metadata_file, max_docs, calls, args,
                   all_chunks, topic_counts, processed_datasets, remaining_configs, k, i,
                   dataset_stats>>

\* Lines 410-419: the top topics are computed and chunks.jsonl is opened.
FinalOpenChunks ==
    /\ pc = "final"
    /\ LET top == top_topics_of(topic_counts) IN
       stats' = [stats EXCEPT !.top_topics = top,
                              !.topic_counts = [t \in Range(top) |-> topic_counts[t]]]
    /\ chunks_file' = Truncated(chunks_file)
    /\ pc' = "final_write"
    /\ UNCHANGED <<units, hist, contents, ckpt_file, meta_file, metadata_file, max_docs, calls, args,
                   all_chunks, topic_counts, processed_datasets, remaining_configs, k, i,
                   dataset_stats>>

FinalWriteChunks ==
    /\ pc = "final_write"
    /\ chunks_file' = checkpoint_lines(all_chunks)
    /\ pc' = "final_meta_open"
    /\ UNCHANGED <<units, hist, contents, ckpt_file, meta_file, metadata_file, max_docs, calls, locals>>

FinalOpenMeta ==
    /\ pc = "final_meta_open"
    /\ metadata_file' = [NoMetadata EXCEPT !.exists = TRUE, !.torn = TRUE]
    /\ pc' = "final_meta_write"
    /\ UNCHANGED <<units, hist, contents, ckpt_file, meta_file, chunks_file, max_docs, calls, locals>>

FinalWriteMeta ==
    /\ pc = "final_meta_write"
    /\ metadata_file' = [exists |-> TRUE, torn |-> FALSE, stats |-> stats]
    /\ pc' = "unlink"
    /\ UNCHANGED <<units, hist, contents, ckpt_file, meta_file, chunks_file, max_docs, calls, locals>>

\* if checkpoint_file.exists(): checkpoint_file.unlink()
UnlinkCheckpoint ==
    /\ pc = "unlink"
    /\ ckpt_file' = NoLines
    /\ pc' = "unlink_meta"
    /\ UNCHANGED <<units, hist, contents, meta_file, chunks_file, metadata_file, max_docs, calls, locals>>

\* if checkpoint_meta.exists(): checkpoint_meta.unlink(); the summary is
\* printed and stats returned.
UnlinkMeta ==
    /\ pc = "unlink_meta"
    /\ meta_file' = NoJson
    /\ pc' = "done"
    /\ UNCHANGED <<units, hist, contents, ckpt_file, chunks_file, metadata_file, max_docs, calls, locals>>

\* ------------------------------------------------------------------------
\* Interruption
\* ------------------------------------------------------------------------
\* What a file being written holds when the process dies: some of the lines,
\* or some lines and a cut-off one.  No reader gets past a cut-off line, so
\* the lines of such a file are left out.
PartialLines(chunks) ==
    {[exists |-> TRUE, lines |-> SubSeq(checkpoint_lines(chunks).lines, 1, n),
      torn |-> FALSE] : n \in 0..Len(chunks)}
    \cup (IF chunks = <<>> THEN {}
          ELSE {[exists |-> TRUE, lines |-> <<>>, torn |-> TRUE]})

\* The process is killed (user interrupt, termination): its memory is gone,
\* the files stay as they are.
Kill ==
    /\ pc \in Active
    /\ pc' = "killed"
    /\ IF pc = "save_write" THEN ckpt_file' \in PartialLines(all_chunks)
       ELSE ckpt_file' = ckpt_file
    /\ max_docs' = StaticMaxDocs
    /\ args' = NoArgs
    /\ all_chunks' = <<>>
    /\ topic_counts' = <<>>
    /\ processed_datasets' = {}
    /\ remaining_configs' = <<>>
    /\ k' = 1
    /\ i' = 0
    /\ dataset_stats' = ZeroStats
    /\ stats' = NoStats
    /\ why' = "none"
    /\ loaded_done' = {}
    /\ interrupted' = IF calls = 1 /\ pc = "loop" /\ k = 2
                       THEN [after_one |-> TRUE, args |-> args]
                       ELSE interrupted
    /\ UNCHANGED <<units, contents, meta_file, chunks_file, metadata_file, calls, snaps,
                   configs_used>>

Next ==
    \/ \E a \in ArgSets, newproc \in BOOLEAN : StartCall(a, newproc)
    \/ Allocate
    \/ LoopExit
    \/ OpenSource
    \/ OpenFails
    \/ StreamEnds
    \/ StreamRaises
    \/ \E doc \in DocPool : ProcessDoc(doc)
    \/ MarkProcessed
    \/ SaveOpenCheckpoint
    \/ SaveWriteCheckpoint
    \/ SaveOpenMeta
    \/ SaveWriteMeta
    \/ SaveFails
    \/ FinalOpenChunks
    \/ FinalWriteChunks
    \/ FinalOpenMeta
    \/ FinalWriteMeta
    \/ UnlinkCheckpoint
    \/ UnlinkMeta
    \/ Kill

Spec == Init /\ [][Next]_vars

\* ------------------------------------------------------------------------
\* chunk_text and extract_topic called on their own
\* ------------------------------------------------------------------------
pipeline == <<contents, disk, max_docs, pc, calls, locals, hist>>

\* chunk_text(text, chunk_size, overlap) is called with a text of nwords words
Chunking(nwords, chunk_size, overlap) ==
    [at |-> "called", nwords |-> nwords, chunk_size |-> chunk_size,
     overlap |-> overlap, start |-> 0, chunks |-> <<>>]

\* The inputs of chunk_text: a grid of small texts with every chunk_size and
\* overlap up to MaxChunkSize (overlap >= chunk_size included), and the
\* default configuration on texts around one and several windows.
SampleWords == {0, 40, 150, 200, 201, 350, 400, 500}

ChunkInputs ==
    {Chunking(n, c, o) : n \in 0..MaxWords, c \in 1..MaxChunkSize, o \in 0..MaxChunkSize}
    \cup {Chunking(n, DefaultChunkSize, DefaultOverlap) : n \in SampleWords}

\* The inputs of extract_topic: every configured source with every shape of
\* the topic field and of the title field.
TopicValues ==
    {Absent,
     ListVal(<<>>),
     ListVal(<< <<"c", "s", ".", "A", "I">>, <<"x">> >>),
     StrVal(<<>>),
     StrVal(<<"c", "s", ".", "A", "I">>),
     StrVal(<<"P", ",", "f">>),
     StrVal(<<",", "f">>),
     IntVal(3),
     OtherVal(<<"1", ".", "5">>)}

TitleValues ==
    {Absent, StrVal(<<>>), StrVal(<<"P", "y", " ", "x">>), StrVal(<<" ">>)}

TopicInputs ==
    {[at |-> "called", name |-> n, doc |-> Doc(40, title, topic), out |-> <<>>] :
        n \in Range(AllNames), title \in TitleValues, topic \in TopicValues}

InitUnits ==
    /\ Untouched
    /\ \/ chunker \in ChunkInputs /\ extractor = NotExtracting
       \/ chunker = NotChunking /\ extractor \in TopicInputs

\* Variant: only a text of fewer than chunk_size words is returned whole.
ChunkTextEnter_strict ==
    /\ chunker.at = "called"
    /\ chunker' =
          IF chunker.nwords < chunker.chunk_size
          THEN [chunker EXCEPT !.at = "returned", !.chunks = << <<0, chunker.nwords>> >>]
          ELSE [chunker EXCEPT !.at = "loop", !.start = 0, !.chunks = <<>>]
    /\ UNCHANGED <<pipeline, extractor>>

\* Lines 112-117: the text is split; a text of at most chunk_size words is
\* returned whole, a longer one enters the loop with start = 0.
ChunkTextEnter ==
    /\ chunker.at = "called"
    /\ chunker' =
          IF chunker.nwords <= chunker.chunk_size
          THEN [chunker EXCEPT !.at = "returned", !.chunks = << <<0, chunker.nwords>> >>]
          ELSE [chunker EXCEPT !.at = "loop", !.start = 0, !.chunks = <<>>]
    /\ UNCHANGED <<pipeline, extractor>>

\* Variant: the loop moves forward by chunk_size words.
ChunkTextIterate_no_overlap ==
    /\ chunker.at = "loop"
    /\ chunker.start < chunker.nwords
    /\ Len(chunker.chunks) < MaxIter
    /\ LET end == Min(chunker.start + chunker.chunk_size, chunker.nwords)
           next == chunker.start + chunker.chunk_size
       IN  chunker' =
              [chunker EXCEPT
                  !.chunks = Append(@, <<chunker.start, end>>),
                  !.start = next,
                  !.at = IF chunker.nwords - next < chunker.overlap
                         THEN "returned" ELSE "loop"]
    /\ UNCHANGED <<pipeline, extractor>>

\* Variant: the loop stops before a window that would not be a full one.
ChunkTextIterate_drops_tail ==
    /\ chunker.at = "loop"
    /\ chunker.start < chunker.nwords
    /\ Len(chunker.chunks) < MaxIter
    /\ LET end == Min(chunker.start + chunker.chunk_size, chunker.nwords)
           next == chunker.start + (chunker.chunk_size - chunker.overlap)
       IN  chunker' =
              [chunker EXCEPT
                  !.chunks = Append(@, <<chunker.start, end>>),
                  !.start = next,
                  !.at = IF chunker.nwords - next < chunker.chunk_size
                         THEN "returned" ELSE "loop"]
    /\ UNCHANGED <<pipeline, extractor>>

\* Variant: start is not moved forward.
ChunkTextIterate_stuck ==
    /\ chunker.at = "loop"
    /\ chunker.start < chunker.nwords
    /\ Len(chunker.chunks) < MaxIter
    /\ LET end == Min(chunker.start + chunker.chunk_size, chunker.nwords)
           next == chunker.start
       IN  chunker' =
              [chunker EXCEPT
                  !.chunks = Append(@, <<chunker.start, end>>),
                  !.start = next,
                  !.at = IF chunker.nwords - next < chunker.overlap
                         THEN "returned" ELSE "loop"]
    /\ UNCHANGED <<pipeline, extractor>>

\* Lines 118-129: one iteration of the loop, up to the break.
ChunkTextIterate ==
    /\ chunker.at = "loop"
    /\ chunker.start < chunker.nwords
    /\ Len(chunker.chunks) < MaxIter
    /\ LET end == Min(chunker.start + chunker.chunk_size, chunker.nwords)
           next == chunker.start + (chunker.chunk_size - chunker.overlap)
       IN  chunker' =
              [chunker EXCEPT
                  !.chunks = Append(@, <<chunker.start, end>>),
                  !.start = next,
                  !.at = IF chunker.nwords - next < chunker.overlap
                         THEN "returned" ELSE "loop"]
    /\ UNCHANGED <<pipeline, extractor>>

\* Lines 118 and 131: the loop condition fails and the chunks are returned.
ChunkTextReturn ==
    /\ chunker.at = "loop"
    /\ ~(chunker.start < chunker.nwords)
    /\ chunker' = [chunker EXCEPT !.at = "returned"]
    /\ UNCHANGED <<pipeline, extractor>>

\* extract_topic(config, doc) returns or raises.
ExtractTopic ==
    /\ extractor.at = "called"
    /\ extractor' =
          IF extract_topic_raises(extractor.name, extractor.doc)
          THEN [extractor EXCEPT !.at = "raised"]
          ELSE [extractor EXCEPT !.at = "returned",
                                 !.out = extract_topic(extractor.name, extractor.doc)]
    /\ UNCHANGED <<pipeline, chunker>>

NextUnits ==
    \/ ChunkTextEnter
    \/ ChunkTextIterate
    \/ ChunkTextReturn
    \/ ExtractTopic

SpecUnits == InitUnits /\ [][NextUnits]_vars

\* A call that has started keeps executing: the interpreter runs the next
\* statement of chunk_text or of extract_topic as long as there is one.
SpecUnitsFair == InitUnits /\ [][NextUnits]_vars /\ WF_vars(NextUnits)

\* ------------------------------------------------------------------------
\* Derived notions used by the properties
\* ------------------------------------------------------------------------
\* the chunks a file holds, parsed
parsed(file) == [x \in 1..Len(file.lines) |-> loads_chunk(file.lines[x])]

\* The chunks one pass of process_dataset over a source appends under a cap.
RECURSIVE stream_chunks(_, _, _, _)
stream_chunks(name, cap, a, n) ==
    IF n >= Len(contents[name].docs) \/ n >= cap THEN <<>>
    ELSE LET doc == contents[name].docs[n + 1]
             here == IF doc.text < min_words(name) THEN <<>>
                     ELSE doc_chunks(name, n, doc, a.chunk_size, a.overlap)
         IN  here \o stream_chunks(name, cap, a, n + 1)

\* the pass reaches the point where the stream raises
stream_breaks(name, cap) ==
    /\ contents[name].opened = "ok" /\ contents[name].tail = "raises"
    /\ cap >= Len(contents[name].docs)

\* enough is known of the source to tell what a pass under the cap does: the
\* pass pulls the documents 0..cap and looks at the first cap of them
known_for(name, cap) ==
    LET stream == contents[name] IN
    IF stream.opened = "fails" THEN TRUE
    ELSE IF stream.opened = "unknown" THEN FALSE
    ELSE IF Len(stream.docs) > cap THEN TRUE
    ELSE IF Len(stream.docs) = cap THEN stream.tail # "unknown"
    ELSE stream.tail \in {"ends", "raises"}

\* A run that nothing interrupts, started without a checkpoint in a new
\* process: the chunks it has when the loop over `list` is over, and whether
\* it gets there (ok); ok is FALSE too where what the run would read of a
\* source is not known.
RECURSIVE run_from(_, _, _, _)
run_from(list, caps, a, chunks) ==
    IF list = <<>> \/ Len(chunks) >= a.max_chunks THEN [ok |-> TRUE, chunks |-> chunks]
    ELSE LET name == Head(list) IN
         IF ~known_for(name, caps[name]) \/ stream_breaks(name, caps[name])
         THEN [ok |-> FALSE, chunks |-> chunks]
         ELSE run_from(Tail(list), caps, a,
                       IF contents[name].opened = "ok"
                       THEN chunks \o stream_chunks(name, caps[name], a, 0)
                       ELSE chunks)

uninterrupted(a) ==
    run_from(configs_of(a), allocate(StaticMaxDocs, configs_of(a), a.max_chunks, 0), a, <<>>)

same_config(a, b) ==
    /\ a.max_chunks = b.max_chunks /\ a.chunk_size = b.chunk_size
    /\ a.overlap = b.overlap /\ a.datasets = b.datasets

\* A first run, in a new process without a checkpoint, that is not interrupted
\* ends with the chunks of `uninterrupted`.
ReferenceAgrees ==
    (pc = "done" /\ calls = 1)
        => /\ uninterrupted(args).ok
           /\ parsed(chunks_file) = uninterrupted(args).chunks

\* The loop followed step by step returns what the operator chunk_text gives,
\* and the calls it does not follow to the end are the ones that hang.
ChunkerAgrees ==
    /\ chunker.at = "returned"
          => /\ ~chunk_text_hangs(chunker.nwords, chunker.chunk_size, chunker.overlap)
             /\ chunker.chunks = chunk_text(chunker.nwords, chunker.chunk_size, chunker.overlap)
    /\ (chunker.at = "loop" /\ Len(chunker.chunks) = MaxIter)
          => chunk_text_hangs(chunker.nwords, chunker.chunk_size, chunker.overlap)

\* ------------------------------------------------------------------------
\* Properties
\* ------------------------------------------------------------------------

\* C1: a run interrupted right after its first source completed and the
\* checkpoint was saved, then resumed with the same configuration up to the
\* final output, writes the same set of chunks as one uninterrupted run.
C1_ResumeSameChunks ==
    (/\ pc = "done" /\ calls = 2
     /\ interrupted.after_one /\ args.resume
     /\ same_config(args, interrupted.args)
     /\ uninterrupted(args).ok)
        => Range(parsed(chunks_file)) = Range(uninterrupted(args).chunks)

\* C2: whatever the point of interruption, what load_checkpoint returns to the
\* next run is empty or the state of a source-completion boundary.
C2_LoadedIsBoundarySnapshot ==
    (pc \in Ended /\ ~load_checkpoint_raises(ckpt_file, meta_file))
        => LET got == load_checkpoint(ckpt_file, meta_file) IN
           \/ got.chunks = <<>> /\ got.processed = {} /\ got.topic_counts = <<>>
           \/ [chunks |-> got.chunks, processed |-> got.processed,
               topic_counts |-> got.topic_counts] \in snaps

\* C3: a run that reaches the final output has written at most max_chunks
\* chunks.
C3_AtMostMaxChunks ==
    pc = "done" => Len(chunks_file.lines) <= args.max_chunks

\* the sources this call has run process_dataset for and recorded
recorded == Range(stats.source_datasets)

\* C4: a source whose stream cannot be opened gets all-zero stats, is marked
\* completed and saved in the checkpoint, the run goes on with the next
\* source, and a run resumed from that checkpoint does not open it again.
C4_OpenFailureSkipsSource ==
    /\ (pc = "mark" /\ contents[cur].opened = "fails") => dataset_stats = ZeroStats
    /\ \A name \in recorded :
          contents[name].opened = "fails"
              => /\ stats.dataset_stats[name].documents = 0
                 /\ stats.dataset_stats[name].chunks = 0
                 /\ name \in processed_datasets
    /\ (pc = "loop" /\ k > 1 /\ contents[remaining_configs[k - 1]].opened = "fails")
          => /\ remaining_configs[k - 1] \in recorded
             /\ meta_file.exists /\ ~meta_file.torn
             /\ remaining_configs[k - 1] \in Range(meta_file.processed_datasets)
    /\ pc = "raised" => why \in {"load", "stream", "topic", "save"}
    /\ pc \in {"stream", "mark"} => cur \notin loaded_done

\* a resumed run that loaded an unreachable source as completed streams
\* another source
C4_Witness ==
    /\ calls = 2 /\ args.resume /\ pc = "stream"
    /\ \E name \in loaded_done : contents[name].opened = "fails"

\* C5: a stream that opens and then fails while yielding documents does not
\* abort the run.
C5_StreamFailureDoesNotAbort == ~(pc = "raised" /\ why = "stream")

\* C6: a failing write of save_checkpoint ends the call with the error: the
\* call takes no further step, so it ingests no further source, writes no
\* final artifact and removes no checkpoint file.
C6_SaveFailureAborts ==
    /\ [][(pc \in SavePoints /\ why' = "save") => pc' = "raised"]_vars
    /\ [][pc = "raised" => calls' = calls + 1]_vars

\* a save failed while a further source was still to be ingested
C6_Witness ==
    /\ pc = "raised" /\ why = "save"
    /\ k < Len(remaining_configs)
    /\ ckpt_file.exists

\* C7: with an artifact missing or the metadata corrupt, the load does not
\* fail and the run starts with chunks, completed sources and topic counts
\* all empty.
C7_LoadFallsBackToEmpty ==
    /\ ~(pc = "raised" /\ why = "load" /\ meta_file.torn)
    /\ (pc = "plan" /\ args.resume
            /\ (~ckpt_file.exists \/ ~meta_file.exists \/ meta_file.torn))
          => all_chunks = <<>> /\ processed_datasets = {} /\ topic_counts = <<>>

FinalWriting == {"final", "final_write", "final_meta_open", "final_meta_write"}

\* C9: the checkpoint files are removed only once both final files are
\* written; until the removal step the final phase leaves them as they are,
\* the checkpoint last saved being loadable; after the final phase no
\* checkpoint file remains.
C9_FinalizeOrdering ==
    /\ [][((ckpt_file.exists /\ ~ckpt_file'.exists)
              \/ (meta_file.exists /\ ~meta_file'.exists))
            => /\ pc \in {"unlink", "unlink_meta"}
               /\ chunks_file = checkpoint_lines(all_chunks)
               /\ metadata_file = [exists |-> TRUE, torn |-> FALSE, stats |-> stats]]_vars
    /\ [][(pc \in FinalWriting) => (ckpt_file' = ckpt_file /\ meta_file' = meta_file)]_vars
    /\ []((pc \in FinalWriting \cup {"unlink"} /\ recorded # {})
            => /\ ~load_checkpoint_raises(ckpt_file, meta_file)
               /\ load_checkpoint(ckpt_file, meta_file).chunks = all_chunks
               /\ load_checkpoint(ckpt_file, meta_file).processed = processed_datasets)
    /\ [](pc = "done" => ~ckpt_file.exists /\ ~meta_file.exists)

\* the final files are written and the checkpoint of this run is still there
C9_Witness ==
    /\ pc = "unlink" /\ recorded # {}
    /\ ckpt_file.exists /\ meta_file.exists
    /\ all_chunks # <<>>

\* C10: the static document cap of every configured source stays as written
\* in DATASET_CONFIGS.
C10_StaticCapKept == max_docs = StaticMaxDocs

\* the selected sources that are not completed when the call allocates
to_do == Range(configs_of(args)) \ processed_datasets

\* C11: Allocate gives every selected source that is not yet completed the
\* cap min(static cap, ((max_chunks - chunks loaded) / sources to do) / 2),
\* with integer division.
C11_AllocateFormula ==
    [][(pc = "plan" /\ pc' = "loop")
          => \A name \in to_do :
                max_docs'[name] =
                   Min(StaticMaxDocs[name],
                       ((args.max_chunks - Len(all_chunks)) \div Cardinality(to_do))
                          \div AvgChunksPerDoc)]_vars

\* C12: a run given an explicit subset of sources ends with a completed set
\* inside that subset.
C12_CompletedWithinSubset ==
    (pc = "done" /\ args.datasets # {}) => processed_datasets \subseteq args.datasets

\* a call of chunk_text that has returned, with 0 <= overlap < chunk_size
ReturnedValid ==
    /\ chunker.at = "returned"
    /\ 0 <= chunker.overlap /\ chunker.overlap < chunker.chunk_size

\* C13: a text of W <= chunk_size words gives exactly one chunk, from word 0
\* to word W.
C13_ShortTextOneChunk ==
    (chunker.at = "returned" /\ chunker.nwords <= chunker.chunk_size)
        => chunker.chunks = << <<0, chunker.nwords>> >>

\* a text of exactly chunk_size words was returned
C13_Witness ==
    /\ chunker.at = "returned"
    /\ chunker.nwords = chunker.chunk_size
    /\ 0 < chunker.overlap /\ chunker.overlap < chunker.chunk_size

\* C14: with chunk_size 200 and overlap 50 a text of 500 words gives exactly
\* the three chunks [0,200), [150,350), [300,500).
C14_FiveHundredWords ==
    (/\ chunker.at = "returned" /\ chunker.nwords = 500
     /\ chunker.chunk_size = 200 /\ chunker.overlap = 50)
        => chunker.chunks = << <<0, 200>>, <<150, 350>>, <<300, 500>> >>

\* C15: with 0 <= overlap < chunk_size every two consecutive chunks overlap
\* by exactly overlap words (the first and the last pair included, which is
\* more than the claim asks).
C15_ConsecutiveOverlap ==
    ReturnedValid
        => \A j \in 1..(Len(chunker.chunks) - 1) :
              chunker.chunks[j][2] - chunker.chunks[j + 1][1] = chunker.overlap

\* four or more chunks with a positive overlap were returned
C15_Witness ==
    ReturnedValid /\ chunker.overlap > 0 /\ Len(chunker.chunks) >= 4

\* C16: with 0 <= overlap < chunk_size the spans come in increasing start
\* order, none has more than chunk_size words, and every word position of
\* the text lies in one of them.
C16_OrderedBoundedCovering ==
    ReturnedValid
        => /\ \A j \in 1..(Len(chunker.chunks) - 1) :
                 chunker.chunks[j][1] < chunker.chunks[j + 1][1]
           /\ \A j \in 1..Len(chunker.chunks) :
                 /\ chunker.chunks[j][2] - chunker.chunks[j][1] <= chunker.chunk_size
                 /\ 0 <= chunker.chunks[j][1]
                 /\ chunker.chunks[j][2] <= chunker.nwords
           /\ \A w \in 0..(chunker.nwords - 1) :
                 \E j \in 1..Len(chunker.chunks) :
                    chunker.chunks[j][1] <= w /\ w < chunker.chunks[j][2]

\* a text that is no multiple of the stride was returned in three or more
\* chunks, the last one shorter than chunk_size
C16_Witness ==
    /\ ReturnedValid /\ Len(chunker.chunks) >= 3
    /\ LET last == chunker.chunks[Len(chunker.chunks)]
       IN  last[2] = chunker.nwords /\ last[2] - last[1] < chunker.chunk_size

\* C17: a call with overlap >= chunk_size ends with an error before any
\* source is opened, any chunk is emitted or any file is written.
C17_BadOverlapRejected ==
    (args.chunk_size > 0 /\ args.overlap >= args.chunk_size)
        => /\ pc \in {"plan", "loop", "raised", "exited"}
           /\ pc = "loop" => k = 1
           /\ pc = "raised" => why \notin {"stream", "topic", "save"}

IsLower(s) == \A j \in 1..Len(s) : Lower(s[j]) = s[j]

\* C18: for every source and document extract_topic returns a lowercase
\* string that is not empty.
C18_TopicLowercaseNonEmpty ==
    extractor.at \in {"returned", "raised"}
        => /\ extractor.at = "returned"
           /\ extractor.out # <<>>
           /\ IsLower(extractor.out)

\* C19: no document is chunked once the chunk total has reached max_chunks.
C19_NoDocumentPastBudget ==
    [][(pc = "stream" /\ Len(all_chunks') > Len(all_chunks))
          => Len(all_chunks) < args.max_chunks]_vars

\* the main loop and what follows it, up to the removal of the checkpoint
AfterPlan ==
    {"loop", "stream", "hung", "mark"} \cup SavePoints \cup FinalWriting \cup {"unlink"}

\* C20: the sources are taken one at a time in the order of DATASET_CONFIGS;
\* no source is opened once the chunk total is >= max_chunks; when the loop
\* is left the sources not reached are neither recorded nor marked, and every
\* source gone through is marked and is in the checkpoint on disk.
C20_BudgetStopsSources ==
    /\ [][(pc = "loop" /\ pc' \in {"stream", "mark"})
            => /\ Len(all_chunks) < args.max_chunks
               /\ stats.source_datasets = SubSeq(remaining_configs, 1, k - 1)]_vars
    /\ [](pc \in AfterPlan
            => /\ remaining_configs = select(DATASET_CONFIGS, Range(remaining_configs))
               /\ stats.source_datasets
                     = SubSeq(remaining_configs, 1, IF pc \in SavePoints THEN k ELSE k - 1))
    /\ [](pc \in FinalWriting
            => /\ \A j \in k..Len(remaining_configs) :
                     /\ remaining_configs[j] \notin processed_datasets
                     /\ remaining_configs[j] \notin recorded
               /\ recorded # {}
                     => /\ ~load_checkpoint_raises(ckpt_file, meta_file)
                        /\ recorded \subseteq processed_datasets
                        /\ recorded \subseteq load_checkpoint(ckpt_file, meta_file).processed)

\* the budget is reached after a first source, with a source still to go
C20_Witness ==
    /\ pc = "final" /\ k > 1 /\ k <= Len(remaining_configs)
    /\ Len(all_chunks) >= args.max_chunks
    /\ ckpt_file.exists /\ meta_file.exists

\* C21: save_checkpoint is entered only from the marking of a source, once
\* for every source recorded, and the checkpoint files do not change while a
\* stream is being consumed (nor anywhere outside save_checkpoint and the
\* final removal).
C21_SavesAtSourceBoundaries ==
    /\ [][(pc # "save_open" /\ pc' = "save_open")
            => /\ pc = "mark"
               /\ processed_datasets' = processed_datasets \cup {cur}
               /\ stats'.source_datasets = Append(stats.source_datasets, cur)]_vars
    /\ [][(pc = "mark" /\ pc' # "killed") => pc' = "save_open"]_vars
    /\ [][(pc \in Active /\ pc' \in Active
             /\ stats'.source_datasets # stats.source_datasets /\ pc # "plan")
            => (pc = "mark" /\ pc' = "save_open")]_vars
    /\ [][(ckpt_file' # ckpt_file \/ meta_file' # meta_file)
            => pc \in SavePoints \cup {"unlink", "unlink_meta"}]_vars
    /\ [](pc \in SavePoints
            => /\ stats.source_datasets # <<>>
               /\ cur = stats.source_datasets[Len(stats.source_datasets)]
               /\ Len(stats.source_datasets) = k)

\* two sources were ingested and saved one after the other
C21_Witness ==
    /\ pc = "loop" /\ k = 3
    /\ Len(stats.source_datasets) = 2
    /\ ckpt_file.exists /\ ckpt_file.lines # <<>>

\* C22: a resumed run never opens a source its checkpoint has as completed;
\* with every selected source completed it goes from the plan straight to the
\* final output, and the chunk stream it writes is the checkpoint's chunk
\* list.
C22_CompletedNotReopened ==
    /\ [](pc \in AfterPlan => Range(remaining_configs) \cap loaded_done = {})
    /\ [](pc \in {"stream", "hung", "mark"} => cur \notin loaded_done)
    /\ [][\A name \in Names :
             contents'[name] # contents[name] => name \notin loaded_done]_vars
    /\ [][(pc = "loop" /\ remaining_configs = <<>>) => pc' \in {"final", "killed"}]_vars
    /\ []((pc = "unlink" /\ remaining_configs = <<>>)
            => /\ args.resume
               /\ Range(configs_of(args)) \subseteq loaded_done
               /\ stats.source_datasets = <<>>
               /\ ~load_checkpoint_raises(ckpt_file, meta_file)
               /\ parsed(chunks_file) = load_checkpoint(ckpt_file, meta_file).chunks)

\* a resumed run found every selected source completed and wrote the chunks
\* of the checkpoint
C22_Witness ==
    /\ pc = "unlink" /\ remaining_configs = <<>> /\ args.resume
    /\ chunks_file.lines # <<>>
    /\ Cardinality(loaded_done) = Len(DATASET_CONFIGS)

\* the (source, document id, chunk index) triple of a chunk record
triple_of(chunk) == <<chunk.source_dataset, chunk.doc_id, chunk.chunk_idx>>

\* C23: with one configuration used by every run, no two chunks of the final
\* chunk stream have the same (source, document id, chunk index) triple, nor
\* the same identifier.
C23_NoDuplicateChunks ==
    (pc = "done" /\ Cardinality(configs_used) = 1)
        => LET final == parsed(chunks_file) IN
           \A x, y \in 1..Len(final) :
              x # y => /\ triple_of(final[x]) # triple_of(final[y])
                       /\ final[x].id # final[y].id

\* C24: in the final metadata of a run that reaches the final output, resumed
\* or not, total_chunks is the number of chunks of the final chunk stream,
\* total_words the sum of their word counts and total_documents the number of
\* distinct documents they come from.
C24_TotalsDescribeFinalStream ==
    pc = "done"
        => LET final == parsed(chunks_file)
               totals == metadata_file.stats
           IN  /\ totals.total_chunks = Len(final)
               /\ totals.total_words =
                     SeqSum([x \in 1..Len(final) |-> final[x].word_count])
               /\ totals.total_documents =
                     Cardinality({final[x].doc_id : x \in 1..Len(final)})

\* the number of documents the loop of process_dataset has taken from the
\* stream when it is over: the i it went through, and the one at index i on
\* which it broke
pulled ==
    i + (IF i >= max_docs[cur]
            /\ (Len(contents[cur].docs) > i \/ contents[cur].tail = "more")
         THEN 1 ELSE 0)

\* the sum of the counts of a topic_counts dict
RECURSIVE sum_counts(_, _)
sum_counts(counts, topics) ==
    IF topics = {} THEN 0
    ELSE LET t == CHOOSE t \in topics : TRUE
         IN  counts[t] + sum_counts(counts, topics \ {t})

\* C25: when a source has been streamed, every document pulled from it is in
\* exactly one of documents, skipped_empty and skipped_short, and no more than
\* the source's cap were pulled; a document counted in documents added at
\* least one chunk and exactly one to the topic counts.
C25_EveryPulledDocumentCounted ==
    /\ [](pc = "mark" /\ contents[cur].opened = "ok"
            => /\ dataset_stats.documents + dataset_stats.skipped_empty
                    + dataset_stats.skipped_short = pulled
               /\ pulled <= max_docs[cur])
    /\ [][(pc = "stream" /\ pc' = "stream"
          /\ dataset_stats'.documents # dataset_stats.documents)
            => /\ dataset_stats'.documents = dataset_stats.documents + 1
               /\ dataset_stats'.skipped_empty = dataset_stats.skipped_empty
               /\ dataset_stats'.skipped_short = dataset_stats.skipped_short
               /\ Len(all_chunks') > Len(all_chunks)
               /\ sum_counts(topic_counts', DOMAIN topic_counts')
                    = sum_counts(topic_counts, DOMAIN topic_counts) + 1]_vars

\* a call of chunk_text with chunk_size >= 1 and 0 <= overlap < chunk_size
ValidCall ==
    /\ chunker # NotChunking
    /\ chunker.chunk_size >= 1
    /\ 0 <= chunker.overlap /\ chunker.overlap < chunker.chunk_size

\* C26: a call of chunk_text with chunk_size >= 1 and 0 <= overlap <
\* chunk_size returns; every iteration of its loop moves start forward; the
\* list it returns is not empty and the start offsets in it strictly increase.
C26_ChunkTextTerminates ==
    /\ (ValidCall /\ chunker.at = "called") ~> (chunker.at = "returned")
    /\ [][(ValidCall /\ chunker.at = "loop" /\ chunker' # chunker)
            => /\ chunker'.start > chunker.start \/ chunker'.at = "returned"
               /\ Len(chunker'.chunks) <= chunker.nwords]_vars
    /\ [](ValidCall /\ chunker.at = "returned"
            => /\ chunker.chunks # <<>>
               /\ \A j \in 1..(Len(chunker.chunks) - 1) :
                     chunker.chunks[j][1] < chunker.chunks[j + 1][1])

\* a call with a valid configuration went through as many iterations as the
\* text has words and returned
C26_Witness ==
    /\ ValidCall /\ chunker.at = "returned"
    /\ chunker.nwords = MaxWords
    /\ Len(chunker.chunks) = MaxWords

====
